---------------------------- MODULE Spec2Model ----------------------------
(***************************************************************************)
(* Verification model of the numeric core of steelDeoxDesulf101:           *)
(*   - src/src/en/Deox.py        : Al-O deoxidation equilibrium            *)
(*                                 (Al_O_eqs, calc_pure, data_deox)        *)
(*   - src/src/es/EVGumbel-ES.py : Gumbel extreme-value analysis           *)
(*                                 (eCDF, fitEVmom, fitEVml, calcSE,       *)
(*                                  gumbelPlot)                            *)
(*                                                                         *)
(* Number representation.  Python floats are modelled by integers:         *)
(*   - contents [%Al], [%O], the initial guess x0 and the bound are        *)
(*     counted in units of 1e-8 wt% (so 1e-8 is 1 and 1e-2 is 1000000);    *)
(*   - logarithms, interaction coefficients, activities and the residual   *)
(*     are fixed-point numbers with three decimals (unit 1/1000);          *)
(*   - NaN and -inf are two reserved values outside the numeric range,     *)
(*     with IEEE comparison rules (every ordered comparison with NaN is    *)
(*     false).                                                             *)
(***************************************************************************)
EXTENDS Integers, Sequences, FiniteSets, TLC

VARIABLES
    pc,        \* position of the interpreter: "idle", "loop", "returned", "raised"
    fn,        \* function called at top level by the notebook cell
    args,      \* its arguments
    trace,     \* sub-evaluations performed so far, in execution order
    result,    \* value returned / exception raised by the top-level call
    pcts_O,    \* data_deox: the list pcts_O being built
    roots,     \* what scipy.optimize.fsolve answers, per argument tuple
    df,        \* EVGumbel: column Y of the caller's data frame
    mlFit,     \* EVGumbel: what scipy.stats.gumbel_r.fit answers on df.Y
    printed    \* EVGumbel: lines written to stdout by the current call

vars == <<pc, fn, args, trace, result, pcts_O, roots, df, mlFit, printed>>

deoxVars == <<pcts_O, roots>>
evVars   == <<df, mlFit, printed>>

(***************************************************************************)
(* Bounds of the model                                                     *)
(***************************************************************************)
MaxLen == 2          \* longest aluminum-content sequence swept by data_deox
MaxN   == 3          \* largest sample (rows of the data frame)

(***************************************************************************)
(* Floating point                                                          *)
(***************************************************************************)
NaN    == -999999999
NegInf == -999999998

IsNum(x) == x # NaN /\ x # NegInf

\* IEEE ordered comparisons: false as soon as one side is NaN
FGt(a, b) == a # NaN /\ b # NaN /\ a > b
FLe(a, b) == a # NaN /\ b # NaN /\ a <= b

\* a + b for operands that are never +inf
FAdd(a, b) ==
    IF a = NaN \/ b = NaN THEN NaN
    ELSE IF a = NegInf \/ b = NegInf THEN NegInf
    ELSE a + b

\* k * a for a positive integer literal k
FScale(k, a) == IF IsNum(a) THEN k * a ELSE a

\* product of two fixed-point numbers
FMul(a, b) == (a * b) \div 1000

RECURSIVE ILog10(_)
ILog10(c) == IF c < 10 THEN 0 ELSE 1 + ILog10(c \div 10)

\* np.log10 of a content counted in 1e-8 wt% (exact on powers of ten,
\* truncated to the decade otherwise); result in 1/1000
log10Content(c) ==
    IF c < 0 THEN NaN
    ELSE IF c = 0 THEN NegInf
    ELSE (ILog10(c) - 8) * 1000

\* np.log10 of an activity given in 1/1000; result in 1/1000
log10Activity(a) ==
    IF a < 0 THEN NaN
    ELSE IF a = 0 THEN NegInf
    ELSE (ILog10(a) - 3) * 1000

\* a content (1e-8 wt%) as a fixed-point number with three decimals
Milli(c) == c \div 100000


(***************************************************************************)
(* Deox.py : equilibrium constant and interaction coefficients (1/1000)    *)
(***************************************************************************)
logK_Al(T) == (-45300000) \div T + 11620

e_AlAl(T) == 80500 \div T
e_AlO(T)  == 3210 - 9720000 \div T
e_OAl(T)  == 1900 - 5750000 \div T
e_OO(T)   == 760 - 1750000 \div T

r_AlAl(T)  == 0
r_AlO(T)   == -107000 - 275000000 \div T
r_OAl(T)   == 3 - 25000 \div T
r_OO(T)    == 0
r_AlAlO(T) == -21 - 13780 \div T
r_OAlO(T)  == 127300 + 327300000 \div T

(***************************************************************************)
(* Outcome of a call: the sub-evaluations it performed, in order, and      *)
(* either the value it returned or the exception it raised.                *)
(***************************************************************************)
Ev(name, x, params) == [ev |-> name, x |-> x, params |-> params]

Returned(events, value) ==
    [events |-> events, outcome |-> "return", value |-> value,
     exc |-> [type |-> "none"]]

Raised(events, exc) ==
    [events |-> events, outcome |-> "raise", value |-> NaN, exc |-> exc]

\* variant: calc_pure lets one more order through
validWider == <<0, 1, 2, 3>>

valid == <<0, 1, 2>>

\* ValueError(f"... {order} is not a valid integer, ... {valid}")
OrderError(order) == [type |-> "ValueError", offending |-> order, valid |-> valid]

ZeroDivision == [type |-> "ZeroDivisionError"]

(***************************************************************************)
(* Al_O_eqs(pctO, *params): residual of the Al-O equilibrium equation      *)
(***************************************************************************)
\* variant: r_AlO is weighted by [%Al]^2 and r_AlAl by [%O]^2
log_fAlMisweighted(pctO, pctAl, T, order) ==
    LET first == FMul(e_AlAl(T), Milli(pctAl)) + FMul(e_AlO(T), Milli(pctO))
        second == FMul(r_AlAl(T), FMul(Milli(pctO), Milli(pctO)))
                  + FMul(r_AlO(T), FMul(Milli(pctAl), Milli(pctAl)))
                  + FMul(r_AlAlO(T), FMul(Milli(pctAl), Milli(pctO)))
    IN  IF order = 2 THEN first + second ELSE first

\* log_fAl and log_fO for order 1 and 2 (lines 259-263)
log_fAl(pctO, pctAl, T, order) ==
    LET first == FMul(e_AlAl(T), Milli(pctAl)) + FMul(e_AlO(T), Milli(pctO))
        second == FMul(r_AlAl(T), FMul(Milli(pctAl), Milli(pctAl)))
                  + FMul(r_AlO(T), FMul(Milli(pctO), Milli(pctO)))
                  + FMul(r_AlAlO(T), FMul(Milli(pctAl), Milli(pctO)))
    IN  IF order = 2 THEN first + second ELSE first

log_fO(pctO, pctAl, T, order) ==
    LET first == FMul(e_OAl(T), Milli(pctAl)) + FMul(e_OO(T), Milli(pctO))
        second == FMul(r_OAl(T), FMul(Milli(pctAl), Milli(pctAl)))
                  + FMul(r_OO(T), FMul(Milli(pctO), Milli(pctO)))
                  + FMul(r_OAlO(T), FMul(Milli(pctAl), Milli(pctO)))
    IN  IF order = 2 THEN first + second ELSE first

\* variant: the ideal-solution branch is missing, order 0 gets the
\* first-order terms
Al_O_eqsNoIdeal(pctO, params) ==
    LET pctAl  == params[1]
        T      == params[2]
        aAl2O3 == params[3]
        order  == params[4]
        e0 == <<Ev("Al_O_eqs", pctO, params)>>
        e1 == e0 \o <<Ev("logK_Al", T, <<>>)>>
        e2 == e1 \o <<Ev("log10_aAl2O3", aAl2O3, <<>>)>>
        e3 == e2 \o <<Ev("log10_pctAl", pctAl, <<>>), Ev("log10_pctO", pctO, <<>>)>>
    IN  IF T = 0 THEN Raised(e1, ZeroDivision)
        ELSE IF order \notin {0, 1, 2} THEN Raised(e2, OrderError(order))
        ELSE LET fAl == log_fAl(pctO, pctAl, T, order)
                 fO  == log_fO(pctO, pctAl, T, order)
             IN  Returned(e3,
                    FAdd(FAdd(FAdd(2 * fAl, FScale(2, log10Content(pctAl))), 3 * fO),
                         FAdd(FScale(3, log10Content(pctO)),
                              0 - log10Activity(aAl2O3) - logK_Al(T))))

Al_O_eqs(pctO, params) ==
    LET pctAl  == params[1]
        T      == params[2]
        aAl2O3 == params[3]
        order  == params[4]
        e0 == <<Ev("Al_O_eqs", pctO, params)>>
        e1 == e0 \o <<Ev("logK_Al", T, <<>>)>>
        e2 == e1 \o <<Ev("log10_aAl2O3", aAl2O3, <<>>)>>
        e3 == e2 \o <<Ev("log10_pctAl", pctAl, <<>>), Ev("log10_pctO", pctO, <<>>)>>
    IN  IF T = 0 THEN Raised(e1, ZeroDivision)            \* -45300 / T
        ELSE
          LET log_K      == logK_Al(T)
              log_aAl2O3 == log10Activity(aAl2O3)
          IN  IF order \notin {0, 1, 2} THEN Raised(e2, OrderError(order))
              ELSE
                LET fAl == IF order = 0 THEN 0 ELSE log_fAl(pctO, pctAl, T, order)
                    fO  == IF order = 0 THEN 0 ELSE log_fO(pctO, pctAl, T, order)
                    eps == FAdd(FAdd(FAdd(2 * fAl, FScale(2, log10Content(pctAl))),
                                     3 * fO),
                                FAdd(FScale(3, log10Content(pctO)),
                                     0 - log_aAl2O3 - log_K))
                IN  Returned(e3, eps)

(***************************************************************************)
(* scipy.optimize.fsolve(func, x0, args=params): evaluates func at x0      *)
(* first (an exception of func propagates), iterates on trial points with  *)
(* the same params, and answers root.                                      *)
(***************************************************************************)
Apply(func, x, params) == Al_O_eqs(x, params)

fsolve(func, x0, params, root) ==
    LET e0    == <<Ev("fsolve", x0, params)>>
        first == Apply(func, x0, params)
    IN  IF first.outcome = "raise"
        THEN Raised(e0 \o first.events, first.exc)
        ELSE Returned(e0 \o first.events, root)

(***************************************************************************)
(* calc_pure(func, pctMe, T, aInc=1, x0=1e-8, order=2)                     *)
(***************************************************************************)
aIncDefault  == 1000       \* aInc=1
x0Default    == 1          \* x0=1e-8
orderDefault == 2          \* order=2

\* variant: a solve that did not produce a number is answered with the
\* initial guess
calc_pureMasked(func, pctMe, T, aInc, x0, order, root) ==
    LET params == <<pctMe, T, aInc, order>>
        e0     == <<Ev("calc_pure", x0, params)>>
    IN  IF order \in {0, 1, 2}
        THEN LET wO == fsolve(func, x0, params, root)
             IN  [wO EXCEPT !.events = e0 \o @,
                            !.value = IF @ = NaN \/ @ < 0 THEN x0 ELSE @]
        ELSE Raised(e0, OrderError(order))

\* variant: the order is not validated before the root finder is called
calc_pureUnchecked(func, pctMe, T, aInc, x0, order, root) ==
    LET params == <<pctMe, T, aInc, order>>
        e0     == <<Ev("calc_pure", x0, params)>>
        wO     == fsolve(func, x0, params, root)
    IN  [wO EXCEPT !.events = e0 \o @]

calc_pure(func, pctMe, T, aInc, x0, order, root) ==
    LET params == <<pctMe, T, aInc, order>>
        e0     == <<Ev("calc_pure", x0, params)>>
    IN  IF order \in {valid[k] : k \in DOMAIN valid}
        THEN LET wO == fsolve(func, x0, params, root)
             IN  [wO EXCEPT !.events = e0 \o @]
        ELSE Raised(e0, OrderError(order))

(***************************************************************************)
(* data_deox: pcts_O[pcts_O > bound] = np.NaN                              *)
(***************************************************************************)
\* variant: values equal to the bound are replaced too
MaskInclusive(xs, bound) ==
    [k \in DOMAIN xs |-> IF xs[k] # NaN /\ bound # NaN /\ xs[k] >= bound THEN NaN ELSE xs[k]]

\* variant: values above the bound are clamped to it
MaskClamped(xs, bound) == [k \in DOMAIN xs |-> IF FGt(xs[k], bound) THEN bound ELSE xs[k]]

Mask(xs, bound) == [k \in DOMAIN xs |-> IF FGt(xs[k], bound) THEN NaN ELSE xs[k]]


\* variant: order is not passed on, calc_pure takes its default
SweepPointDefaultOrder(func, T, pct_M, a_MxOy, x0, order, acc, root) ==
    calc_pure(func, pct_M, T, a_MxOy, x0, orderDefault, root)

\* variant: the solve is seeded with the previous point's result
SweepPointChained(func, T, pct_M, a_MxOy, x0, order, acc, root) ==
    calc_pure(func, pct_M, T, a_MxOy,
              IF acc = <<>> THEN x0 ELSE acc[Len(acc)], order, root)

\* one pass of the loop body: calc_pure(func, pct_M, T, a_MxOy, x0, order);
\* acc is the list pcts_O built so far
SweepPoint(func, T, pct_M, a_MxOy, x0, order, acc, root) ==
    calc_pure(func, pct_M, T, a_MxOy, x0, order, root)

(***************************************************************************)
(* Inputs                                                                  *)
(***************************************************************************)
TVals     == {0, 1873}                       \* temperature, K
PctAlVals == {1000000, 100000000}            \* [%Al] = 1e-2, 1
PctOVals  == {100000, 1000000}               \* [%O]  = 1e-3, 1e-2
AVals     == {100, 1000}                     \* activity 0.1, 1
X0Vals    == {1, 100}                        \* initial guess 1e-8, 1e-6
OrderVals == {-1, 0, 1, 2, 3}
BoundVals == {10000, 1000000}                \* bound 1e-4, 1e-2
RootVals  == {NaN, -1, 0, 10000, 1000000, 2000000}

SeqsUpTo(S, n) == UNION {[1..k -> S] : k \in 0..n}

Empty == [k \in {} |-> 0]

NoResult == [outcome |-> "none", value |-> NaN, exc |-> [type |-> "none"]]

Outcome(r) == [outcome |-> r.outcome, value |-> r.value, exc |-> r.exc]

Done(r) == IF r.outcome = "return" THEN "returned" ELSE "raised"

Init ==
    /\ pc = "idle"
    /\ fn = "none"
    /\ args = Empty
    /\ trace = <<>>
    /\ result = NoResult
    /\ pcts_O = <<>>
    /\ roots = Empty
    /\ df = <<>>
    /\ mlFit = [outcome |-> "raise", value |-> <<>>, exc |-> [type |-> "FitError"]]
    /\ printed = <<>>

(***************************************************************************)
(* Deox.py: the notebook calls one of the three functions                  *)
(***************************************************************************)
CallAl_O_eqs ==
    /\ pc = "idle"
    /\ \E pctO \in PctOVals, pctAl \in PctAlVals, T \in TVals,
          aAl2O3 \in AVals, order \in OrderVals :
          LET params == <<pctAl, T, aAl2O3, order>>
              r == Al_O_eqs(pctO, params)
          IN  /\ fn' = "Al_O_eqs"
              /\ args' = [pctO |-> pctO, params |-> params]
              /\ trace' = r.events
              /\ result' = Outcome(r)
              /\ pc' = Done(r)
    /\ pcts_O' = <<>>
    /\ roots' = Empty
    /\ UNCHANGED evVars

\* given: the optional arguments the caller passes; the others take the
\* defaults of the signature
CallCalcPure ==
    /\ pc = "idle"
    /\ \E pctMe \in PctAlVals, T \in TVals, given \in SUBSET {"aInc", "x0", "order"} :
       \E aIncArg \in (IF "aInc" \in given THEN AVals ELSE {NaN}),
          x0Arg \in (IF "x0" \in given THEN X0Vals ELSE {NaN}),
          orderArg \in (IF "order" \in given THEN OrderVals ELSE {NaN}),
          root \in RootVals :
          LET aInc  == IF "aInc" \in given THEN aIncArg ELSE aIncDefault
              x0    == IF "x0" \in given THEN x0Arg ELSE x0Default
              order == IF "order" \in given THEN orderArg ELSE orderDefault
              r == calc_pure("Al_O_eqs", pctMe, T, aInc, x0, order, root)
          IN  /\ fn' = "calc_pure"
              /\ args' = [func |-> "Al_O_eqs", pctMe |-> pctMe, T |-> T,
                          given |-> given,
                          aInc |-> aIncArg, x0 |-> x0Arg, order |-> orderArg]
              /\ trace' = r.events
              /\ result' = Outcome(r)
              /\ pc' = Done(r)
              /\ roots' = IF r.outcome = "return"
                          THEN (<<x0, <<pctMe, T, aInc, order>>>> :> root)
                          ELSE Empty
    /\ pcts_O' = <<>>
    /\ UNCHANGED evVars

BeginDataDeox ==
    /\ pc = "idle"
    /\ \E T \in TVals, pcts_M \in SeqsUpTo(PctAlVals, MaxLen), a_MxOy \in AVals,
          x0 \in X0Vals, order \in OrderVals, bound \in BoundVals :
          args' = [func |-> "Al_O_eqs", T |-> T, pcts_M |-> pcts_M,
                   a_MxOy |-> a_MxOy, x0 |-> x0, order |-> order, bound |-> bound]
    /\ fn' = "data_deox"
    /\ pc' = "loop"
    /\ pcts_O' = <<>>
    /\ trace' = <<>>
    /\ result' = NoResult
    /\ roots' = Empty
    /\ UNCHANGED evVars

\* for pct_M in pcts_M: wO = calc_pure(...); pcts_O.append(float(wO))
DataDeoxIter ==
    /\ pc = "loop"
    /\ fn = "data_deox"
    /\ Len(pcts_O) < Len(args.pcts_M)
    /\ LET pct_M == args.pcts_M[Len(pcts_O) + 1] IN
       \E root \in RootVals :
          LET r   == SweepPoint(args.func, args.T, pct_M, args.a_MxOy, args.x0,
                                args.order, pcts_O, root)
              fs  == SelectSeq(r.events, LAMBDA e : e.ev = "fsolve")
              key == <<fs[1].x, fs[1].params>>
          IN  /\ trace' = trace \o r.events
              /\ IF r.outcome = "return"
                 THEN /\ key \in DOMAIN roots => root = roots[key]
                      /\ roots' = (key :> root) @@ roots
                      /\ pcts_O' = Append(pcts_O, r.value)
                      /\ UNCHANGED <<pc, result>>
                 ELSE /\ pc' = "raised"
                      /\ result' = Outcome(r)
                      /\ UNCHANGED <<pcts_O, roots>>
    /\ UNCHANGED <<fn, args>>
    /\ UNCHANGED evVars

\* pcts_O = np.array(pcts_O); pcts_O[pcts_O > bound] = np.NaN; return
DataDeoxReturn ==
    /\ pc = "loop"
    /\ fn = "data_deox"
    /\ Len(pcts_O) = Len(args.pcts_M)
    /\ pcts_O' = Mask(pcts_O, args.bound)
    /\ result' = [outcome |-> "return", value |-> <<args.pcts_M, pcts_O'>>,
                  exc |-> [type |-> "none"]]
    /\ pc' = "returned"
    /\ UNCHANGED <<fn, args, trace, roots>>
    /\ UNCHANGED evVars

\* the cell has finished (or aborted on the exception); nothing outlives it
NextCell ==
    /\ pc \in {"returned", "raised"}
    /\ pc' = "idle"
    /\ fn' = "none"
    /\ args' = Empty
    /\ trace' = <<>>
    /\ result' = NoResult
    /\ pcts_O' = <<>>
    /\ roots' = Empty
    /\ printed' = <<>>
    /\ UNCHANGED <<df, mlFit>>

NextDeox ==
    \/ NextCell
    \/ CallAl_O_eqs
    \/ CallCalcPure
    \/ BeginDataDeox
    \/ DataDeoxIter
    \/ DataDeoxReturn

SpecDeox == Init /\ [][NextDeox]_vars


(***************************************************************************)
(* Properties of Deox.py                                                   *)
(***************************************************************************)
EventsOf(name) == SelectSeq(trace, LAMBDA e : e.ev = name)

\* what fsolve answered for the k-th root solve of the current call
RawRoot(k) == LET fs == EventsOf("fsolve") IN roots[<<fs[k].x, fs[k].params>>]

DeoxReturned == fn = "data_deox" /\ pc = "returned"

\* C1: every element of the oxygen array returned by data_deox is <= bound
\* or NaN, and an element whose root solve gave a value > bound is NaN (it
\* is not clamped to the bound).
C1_BoundedOrUndefined ==
    DeoxReturned =>
        LET out == result.value[2] IN
        \A k \in DOMAIN out :
            /\ out[k] = NaN \/ FLe(out[k], args.bound)
            /\ FGt(RawRoot(k), args.bound) => out[k] = NaN

C1_Witness ==
    /\ DeoxReturned
    /\ \E j, k \in DOMAIN result.value[2] :
          /\ FGt(RawRoot(j), args.bound) /\ result.value[2][j] = NaN
          /\ result.value[2][k] # NaN /\ FLe(result.value[2][k], args.bound)

\* C2: data_deox calls calc_pure once per element of pcts_M, in sequence
\* order, always with the caller's T, activity, order and x0; the oxygen
\* array has the length of pcts_M and its element k is the (bounded) answer
\* of the root solve for pcts_M[k] alone.
C2_OneSolvePerPoint ==
    fn = "data_deox" =>
        LET cp == EventsOf("calc_pure")
            P(k) == <<args.pcts_M[k], args.T, args.a_MxOy, args.order>>
        IN  /\ Len(cp) <= Len(args.pcts_M)
            /\ \A k \in DOMAIN cp : cp[k].x = args.x0 /\ cp[k].params = P(k)
            /\ pc = "loop" => Len(cp) = Len(pcts_O)
            /\ pc = "returned" =>
                 LET out == result.value[2] IN
                 /\ Len(cp) = Len(args.pcts_M)
                 /\ Len(out) = Len(args.pcts_M)
                 /\ \A k \in DOMAIN out :
                       LET wO == roots[<<args.x0, P(k)>>] IN
                       out[k] = IF FGt(wO, args.bound) THEN NaN ELSE wO
                 /\ \A j, k \in DOMAIN out :
                       args.pcts_M[j] = args.pcts_M[k] => out[j] = out[k]

C2_Witness ==
    /\ DeoxReturned
    /\ Len(args.pcts_M) >= 2
    /\ args.pcts_M[1] # args.pcts_M[2]
    /\ result.value[2][1] # result.value[2][2]
    /\ result.value[2][1] # NaN
    /\ Len(EventsOf("calc_pure")) = Len(args.pcts_M)

\* C3: Al_O_eqs called with an order outside {0,1,2} raises a ValueError
\* naming the order and [0, 1, 2], before logK_Al(T) or the logarithm of
\* the activity is evaluated, whatever the other arguments.
C3_InvalidOrderFirst ==
    (fn = "Al_O_eqs" /\ args.params[4] \notin {0, 1, 2}) =>
        /\ result.outcome = "raise"
        /\ result.exc.type = "ValueError"
        /\ result.exc.offending = args.params[4]
        /\ result.exc.valid = <<0, 1, 2>>
        /\ EventsOf("logK_Al") = <<>>
        /\ EventsOf("log10_aAl2O3") = <<>>

\* C4: calc_pure with an order outside {0,1,2} raises ValueError and neither
\* the root finder nor func is invoked; with an order in {0,1,2} the root
\* finder is invoked exactly once, with x0 (1e-8 when omitted) and the
\* tuple (pctMe, T, aInc, order).
C4_CalcPureValidation ==
    fn = "calc_pure" =>
        LET aInc  == IF "aInc" \in args.given THEN args.aInc ELSE 1000
            x0    == IF "x0" \in args.given THEN args.x0 ELSE 1
            order == IF "order" \in args.given THEN args.order ELSE 2
            fs    == EventsOf("fsolve")
        IN  IF order \in {0, 1, 2}
            THEN /\ Len(fs) = 1
                 /\ fs[1].x = x0
                 /\ fs[1].params = <<args.pctMe, args.T, aInc, order>>
            ELSE /\ result.outcome = "raise"
                 /\ result.exc.type = "ValueError"
                 /\ fs = <<>>
                 /\ EventsOf("Al_O_eqs") = <<>>

C4_Witness ==
    /\ fn = "calc_pure"
    /\ "order" \in args.given
    /\ args.order = 3
    /\ pc = "raised"
    /\ result.exc.type = "ValueError"
    /\ EventsOf("fsolve") = <<>>


(***************************************************************************)
(* EVGumbel-ES.py.  Measurements Y are whole numbers; means, deviations,   *)
(* distribution parameters and plot coordinates are fixed-point numbers    *)
(* (1/1000); probabilities are exact fractions <<numerator, denominator>>. *)
(***************************************************************************)
Sqrt6 == 2449        \* np.sqrt(6)
Pi    == 3142        \* np.pi

RECURSIVE SqrtSearch(_, _, _)
SqrtSearch(n, lo, hi) ==        \* lo*lo <= n < hi*hi
    IF hi - lo <= 1 THEN lo
    ELSE LET mid == (lo + hi) \div 2
         IN  IF mid * mid <= n THEN SqrtSearch(n, mid, hi) ELSE SqrtSearch(n, lo, mid)

\* floor of the square root
ISqrt(n) == SqrtSearch(n, 0, 46340)

\* quotient of two fixed-point numbers
FDiv(a, b) == (a * 1000) \div b

RECURSIVE SumSeq(_)
SumSeq(xs) == IF xs = <<>> THEN 0 ELSE xs[1] + SumSeq(Tail(xs))

\* pandas Series.mean(): NaN on an empty series
SeriesMean(Y) ==
    IF Len(Y) = 0 THEN NaN ELSE (SumSeq(Y) * 1000) \div Len(Y)

\* variant: population standard deviation (ddof=0)
SeriesStdPopulation(Y) ==
    LET N   == Len(Y)
        S   == SumSeq(Y)
        ssd == SumSeq([k \in 1..N |-> (N * Y[k] - S) * (N * Y[k] - S)])
    IN  IF N <= 0 THEN NaN
        ELSE ISqrt((ssd * 1000000) \div (N * N * N))

\* pandas Series.std(): ddof=1, squared deviations from the mean summed and
\* divided by N-1; NaN when N-1 <= 0
SeriesStd(Y) ==
    LET N   == Len(Y)
        S   == SumSeq(Y)
        ssd == SumSeq([k \in 1..N |-> (N * Y[k] - S) * (N * Y[k] - S)])
    IN  IF N - 1 <= 0 THEN NaN
        ELSE ISqrt((ssd * 1000000) \div (N * N * (N - 1)))

RECURSIVE InsertDescending(_, _)
InsertDescending(x, xs) ==
    IF xs = <<>> THEN <<x>>
    ELSE IF x > xs[1] THEN <<x>> \o xs
    ELSE <<xs[1]>> \o InsertDescending(x, Tail(xs))

RECURSIVE SortDescending(_)
\* variant: sort_values(ascending=False)
SortDescending(xs) ==
    IF xs = <<>> THEN <<>>
    ELSE InsertDescending(xs[Len(xs)], SortDescending(SubSeq(xs, 1, Len(xs) - 1)))

RECURSIVE InsertSorted(_, _)
InsertSorted(x, xs) ==
    IF xs = <<>> THEN <<x>>
    ELSE IF x < xs[1] THEN <<x>> \o xs
    ELSE <<xs[1]>> \o InsertSorted(x, Tail(xs))

RECURSIVE SortValues(_)
\* Series.sort_values().reset_index(drop=True): a new series, ascending, stable
SortValues(xs) ==
    IF xs = <<>> THEN <<>>
    ELSE InsertSorted(xs[Len(xs)], SortValues(SubSeq(xs, 1, Len(xs) - 1)))

\* np.linspace(start, stop, num) for integer start, stop and integer step
Linspace(start, stop, num) ==
    [k \in 1..num |->
        IF num = 1 THEN start
        ELSE start + ((k - 1) * (stop - start)) \div (num - 1)]

EvOut(events, outcome, value, exc, lines) ==
    [events |-> events, outcome |-> outcome, value |-> value, exc |-> exc,
     printed |-> lines]

NoExc == [type |-> "none"]

Line(text, v) == [text |-> text, v |-> v]

\* variant: P_i = i/N
eCDFOverN(frame) ==
    LET Ysorted == SortValues(frame)
        Nvalues == Len(Ysorted)
        lin     == Linspace(1, Nvalues, Nvalues)
        ecdf    == [k \in 1..Nvalues |-> <<lin[k], Nvalues>>]
    IN  EvOut(<<Ev("eCDF", NaN, <<>>)>>, "return", <<Ysorted, ecdf>>, NoExc, <<>>)
        @@ [frame |-> frame]

\* eCDF(df): frame is the column Y of the caller's data frame, which
\* sort_values() leaves as it is
eCDF(frame) ==
    LET Ysorted == SortValues(frame)
        Nvalues == Len(Ysorted)
        lin     == Linspace(1, Nvalues, Nvalues)
        ecdf    == [k \in 1..Nvalues |-> <<lin[k], Nvalues + 1>>]
    IN  EvOut(<<Ev("eCDF", NaN, <<>>)>>, "return", <<Ysorted, ecdf>>, NoExc, <<>>)
        @@ [frame |-> frame]

\* fitEVmom(df, verbose)
fitEVmom(frame, verbose) ==
    LET Ymean == SeriesMean(frame)
        Ystd  == SeriesStd(frame)
        delta == IF Ystd = NaN THEN NaN ELSE FDiv(FMul(Ystd, Sqrt6), Pi)
        lamb  == IF Ymean = NaN \/ delta = NaN THEN NaN
                 ELSE Ymean - (5772 * delta) \div 10000
        lines == IF verbose = TRUE
                 THEN <<Line("Gumbel distribution params.", NaN),
                        Line("lambda: {:.4f}", lamb),
                        Line("delta : {:.4f}", delta),
                        Line("*MoM est.", NaN)>>
                 ELSE <<>>
    IN  EvOut(<<Ev("fitEVmom", NaN, <<>>)>>, "return", <<lamb, delta>>, NoExc, lines)

\* fitEVml(df, verbose): ml is the answer of scipy.stats.gumbel_r.fit(df.Y)
fitEVml(frame, verbose, ml) ==
    LET events == <<Ev("fitEVml", NaN, <<>>), Ev("gumbel_r.fit", NaN, <<>>)>>
    IN  IF ml.outcome = "raise"
        THEN EvOut(events, "raise", <<>>, ml.exc, <<>>)
        ELSE LET delta == ml.value[2]
                 lamb  == ml.value[1]
                 lines == IF verbose = TRUE
                          THEN <<Line("Gumbel distribution params.", NaN),
                                 Line("lambda: {:.4f}", lamb),
                                 Line("delta : {:.4f}", delta),
                                 Line("*ML est.", NaN)>>
                          ELSE <<>>
             IN  EvOut(events, "return", <<lamb, delta>>, NoExc, lines)

\* variant: the sample size is left out
calcSENoN(x, lamb, delta, N) ==
    IF x = NaN \/ lamb = NaN \/ delta = NaN \/ delta = 0 \/ N = 0 THEN NaN
    ELSE LET y     == FDiv(x - lamb, delta)
             inner == 1109 + FMul(514, y) + FMul(608, FMul(y, y))
         IN  IF inner < 0 THEN NaN
             ELSE FMul(delta, ISqrt(inner * 1000))

\* variant: the reduced variable is not divided by delta
calcSEUnscaled(x, lamb, delta, N) ==
    IF x = NaN \/ lamb = NaN \/ delta = NaN \/ delta = 0 \/ N = 0 THEN NaN
    ELSE LET y     == x - lamb
             inner == 1109 + FMul(514, y) + FMul(608, FMul(y, y))
         IN  IF inner < 0 THEN NaN
             ELSE FMul(delta, ISqrt((inner * 1000) \div N))

\* calcSE(x, lamb, delta, N) on one element of x
calcSE(x, lamb, delta, N) ==
    IF x = NaN \/ lamb = NaN \/ delta = NaN \/ delta = 0 \/ N = 0 THEN NaN
    ELSE LET y     == FDiv(x - lamb, delta)
             inner == 1109 + FMul(514, y) + FMul(608, FMul(y, y))
         IN  IF inner < 0 THEN NaN
             ELSE FMul(delta, ISqrt((inner * 1000) \div N))

\* -ln(-ln(i/d)), in 1/1000
RedVarTable ==
    { <<1, 2, 367>>,
      <<1, 3, -94>>, <<2, 3, 903>>,
      <<1, 4, -327>>, <<2, 4, 367>>, <<3, 4, 1246>>,
      <<1, 5, -476>>, <<2, 5, 87>>, <<3, 5, 672>>, <<4, 5, 1500>>,
      <<1, 6, -583>>, <<2, 6, -94>>, <<3, 6, 367>>, <<4, 6, 903>>, <<5, 6, 1702>>,
      <<1, 7, -666>>, <<2, 7, -225>>, <<3, 7, 166>>, <<4, 7, 581>>, <<5, 7, 1089>>,
      <<6, 7, 1870>> }

\* -1.0 * np.log(-np.log(P)) for a probability P = <<i, d>>
redVarOf(P) == (CHOOSE t \in RedVarTable : t[1] = P[1] /\ t[2] = P[2])[3]

\* variant: the fit is run only when both parameters are missing
needsFitBothMissing(given) == ("gamma" \notin given) /\ ("delta" \notin given)

\* if ((gamma==None) or (delta==None)):
needsFit(given) == ("gamma" \notin given) \/ ("delta" \notin given)

UnboundLocal(name) == [type |-> "UnboundLocalError", name |-> name]

\* gumbelPlot(df, gamma, delta, ax): given is the set of distribution
\* parameters the caller passes (not None); ml is what gumbel_r.fit answers
gumbelPlot(frame, given, gammaArg, deltaArg, ml) ==
    LET e0     == <<Ev("gumbelPlot", NaN, <<>>)>>
        cdf    == eCDF(frame)
        xSorted == cdf.value[1]
        ecdf   == cdf.value[2]
        redVar == [k \in DOMAIN ecdf |-> redVarOf(ecdf[k])]
        refit  == needsFit(given)
        fit    == fitEVml(frame, TRUE, ml)
        e1     == e0 \o cdf.events \o (IF refit THEN fit.events ELSE <<>>)
    IN  IF refit /\ fit.outcome = "raise"
        THEN EvOut(e1, "raise", <<>>, fit.exc, <<>>)
        ELSE IF ~refit
        THEN EvOut(e1, "raise", <<>>, UnboundLocal("lamb"), <<>>)   \* line 365
        ELSE
          LET lamb  == fit.value[1]
              delta == fit.value[2]
              xML   == [k \in DOMAIN redVar |->
                          IF delta = NaN \/ lamb = NaN THEN NaN
                          ELSE FMul(delta, redVar[k]) + lamb]
              N     == Len(frame)
              SE    == [k \in DOMAIN xML |-> calcSE(xML[k], lamb, delta, N)]
              xmin  == [k \in DOMAIN xML |->
                          IF SE[k] = NaN THEN NaN ELSE xML[k] - 2 * SE[k]]
              xmax  == [k \in DOMAIN xML |->
                          IF SE[k] = NaN THEN NaN ELSE xML[k] + 2 * SE[k]]
          IN  EvOut(e1, "return",
                    [xSorted |-> xSorted, redVar |-> redVar, xML |-> xML,
                     xmin |-> xmin, xmax |-> xmax, lamb |-> lamb,
                     delta |-> delta, N |-> N],
                    NoExc, fit.printed)

(***************************************************************************)
(* EVGumbel-ES.py: inputs and cells                                        *)
(***************************************************************************)
YVals     == {1, 2, 4}                        \* measurements
ParamVals == {1000, 2500}                     \* location / scale passed by the caller
MLFits    == {<<1500, 500>>, <<2000, 1000>>}  \* (loc, scale) answered by gumbel_r.fit

\* gumbel_r.fit: some (loc, scale) with scale > 0 on data; on an empty
\* sample it fails or answers NaN
MLOutcomes(Y) ==
    IF Len(Y) = 0
    THEN { [outcome |-> "raise", value |-> <<>>, exc |-> [type |-> "FitError"]],
           [outcome |-> "return", value |-> <<NaN, NaN>>, exc |-> NoExc] }
    ELSE { [outcome |-> "return", value |-> f, exc |-> NoExc] : f \in MLFits }

\* df = pd.DataFrame(list(zip(run, specimen, Y)), columns=[...])
LoadData ==
    /\ pc = "idle"
    /\ \E Y \in SeqsUpTo(YVals, MaxN) :
          /\ df' = Y
          /\ mlFit' \in MLOutcomes(Y)
    /\ UNCHANGED <<pc, fn, args, trace, result, printed>>
    /\ UNCHANGED deoxVars

Finish(name, a, r) ==
    /\ fn' = name
    /\ args' = a
    /\ trace' = r.events
    /\ result' = Outcome(r)
    /\ printed' = r.printed
    /\ pc' = Done(r)

CallECDF ==
    /\ pc = "idle"
    /\ LET r == eCDF(df) IN
          /\ Finish("eCDF", [df |-> df], r)
          /\ df' = r.frame
    /\ UNCHANGED mlFit
    /\ UNCHANGED deoxVars

CallFitEVmom ==
    /\ pc = "idle"
    /\ \E verbose \in BOOLEAN :
          Finish("fitEVmom", [df |-> df, verbose |-> verbose], fitEVmom(df, verbose))
    /\ UNCHANGED <<df, mlFit>>
    /\ UNCHANGED deoxVars

CallFitEVml ==
    /\ pc = "idle"
    /\ \E verbose \in BOOLEAN :
          Finish("fitEVml", [df |-> df, verbose |-> verbose],
                 fitEVml(df, verbose, mlFit))
    /\ UNCHANGED <<df, mlFit>>
    /\ UNCHANGED deoxVars

CallGumbelPlot ==
    /\ pc = "idle"
    /\ \E given \in SUBSET {"gamma", "delta"} :
       \E gammaArg \in (IF "gamma" \in given THEN ParamVals ELSE {NaN}),
          deltaArg \in (IF "delta" \in given THEN ParamVals ELSE {NaN}) :
          Finish("gumbelPlot",
                 [df |-> df, given |-> given, gamma |-> gammaArg, delta |-> deltaArg],
                 gumbelPlot(df, given, gammaArg, deltaArg, mlFit))
    /\ UNCHANGED <<df, mlFit>>
    /\ UNCHANGED deoxVars

XVals     == {500, 1500, 2000, 3000}          \* sizes x passed to calcSE
DeltaVals == {500, 1000}                      \* scale parameters, > 0

\* calcSE(x, lamb, delta, N) called on scalars, delta > 0 and N >= 1
CallCalcSE ==
    /\ pc = "idle"
    /\ \E x \in XVals, f \in MLFits, delta \in DeltaVals, N \in 1..MaxN :
          Finish("calcSE", [x |-> x, lamb |-> f[1], delta |-> delta, N |-> N],
                 EvOut(<<Ev("calcSE", x, <<f[1], delta, N>>)>>, "return",
                       calcSE(x, f[1], delta, N), NoExc, <<>>))
    /\ UNCHANGED <<df, mlFit>>
    /\ UNCHANGED deoxVars

NextEV ==
    \/ NextCell
    \/ LoadData
    \/ CallECDF
    \/ CallFitEVmom
    \/ CallFitEVml
    \/ CallGumbelPlot
    \/ CallCalcSE

SpecEV == Init /\ [][NextEV]_vars


(***************************************************************************)
(* Properties of EVGumbel-ES.py                                            *)
(***************************************************************************)
Count(xs, v) == Cardinality({k \in DOMAIN xs : xs[k] = v})

\* C5: for N >= 1 measurements eCDF returns P_i = i/(N+1), i = 1..N:
\* strictly increasing, strictly between 0 and 1 (so P_N < 1), and distinct
\* even for tied measurements.
C5_PlottingPositions ==
    (fn = "eCDF" /\ Len(args.df) >= 1) =>
        LET P == result.value[2]
            N == Len(args.df)
        IN  /\ result.outcome = "return"
            /\ Len(P) = N
            /\ \A i \in 1..N :
                  /\ P[i][2] > 0
                  /\ P[i][1] * (N + 1) = i * P[i][2]
                  /\ 0 < P[i][1] /\ P[i][1] < P[i][2]
            /\ \A i, j \in 1..N :
                  i < j => P[i][1] * P[j][2] < P[j][1] * P[i][2]

C5_Witness ==
    /\ fn = "eCDF"
    /\ pc = "returned"
    /\ Len(args.df) >= 2
    /\ result.value[1][1] = result.value[1][2]
    /\ result.value[2][1] # result.value[2][2]

\* C6: the first value returned by eCDF is in non-decreasing order, is a
\* permutation of the input measurements and is as long as the probability
\* array; the caller's data frame is unchanged by the call.
C6_SortedPermutation ==
    [][(pc = "idle" /\ fn' = "eCDF") =>
          LET Ys == result'.value[1] IN
          /\ df' = df
          /\ \A k \in 1..(Len(Ys) - 1) : Ys[k] <= Ys[k + 1]
          /\ Len(Ys) = Len(df)
          /\ \A k \in DOMAIN df : Count(Ys, df[k]) = Count(df, df[k])
          /\ Len(Ys) = Len(result'.value[2])]_vars

C6_Witness ==
    /\ fn = "eCDF"
    /\ pc = "returned"
    /\ df = args.df
    /\ \E i, j \in DOMAIN df : i < j /\ df[i] > df[j]
    /\ \E i, j \in DOMAIN df : i < j /\ df[i] = df[j]
    /\ result.value[1] # df

\* C7: fitEVmom on fewer than 2 measurements fails with an insufficient-data
\* error instead of returning parameters computed from a NaN variance.
C7_InsufficientData ==
    (fn = "fitEVmom" /\ Len(args.df) < 2) => result.outcome = "raise"

\* C8: for N >= 2 measurements the scale parameter delta returned by
\* fitEVmom is strictly positive.
C8_ScalePositive ==
    (fn = "fitEVmom" /\ Len(args.df) >= 2) =>
        /\ result.outcome = "return"
        /\ FGt(result.value[2], 0)

C10_SuppliedParameters ==
    (fn = "gumbelPlot" /\ args.given = {"gamma", "delta"}) =>
        /\ result.outcome = "return"
        /\ EventsOf("fitEVml") = <<>>
        /\ EventsOf("fitEVmom") = <<>>
        /\ result.value.lamb = args.gamma
        /\ result.value.delta = args.delta

Abs(n) == IF n < 0 THEN 0 - n ELSE n

\* delta*sqrt((1.109 + 0.514*y + 0.608*y^2)/N) evaluated at the reduced
\* variable y itself, in 1/1000
SEAt(y, delta, N) ==
    (delta * ISqrt((1109000 + 514 * y + (608 * y * y) \div 1000) \div N)) \div 1000

\* C11: for a sample of N rows gumbelPlot produces N plot points; for each,
\* x_fit = delta*y + lambda, the reduced variable recomputed from x_fit is y
\* again, and the band is x_fit - 2*SE .. x_fit + 2*SE with the one SE of
\* that y and of N = number of rows (all up to the fixed-point rounding).
C11_PlotGeometry ==
    (fn = "gumbelPlot" /\ pc = "returned") =>
        LET v == result.value
            N == Len(args.df)
        IN  /\ v.N = N
            /\ Len(v.xSorted) = N /\ Len(v.redVar) = N /\ Len(v.xML) = N
            /\ Len(v.xmin) = N /\ Len(v.xmax) = N
            /\ \A k \in 1..N :
                  LET y  == v.redVar[k]
                      y2 == ((v.xML[k] - v.lamb) * 1000) \div v.delta
                  IN  /\ Abs(v.xML[k] * 1000 - (v.delta * y + 1000 * v.lamb)) < 1000
                      /\ y2 <= y /\ (y - y2) * v.delta <= 1000 + v.delta
                      /\ v.xmax[k] - v.xML[k] = v.xML[k] - v.xmin[k]
                      /\ v.xmax[k] - v.xML[k] >= 0
                      /\ (v.xmax[k] - v.xML[k]) % 2 = 0
                      /\ Abs((v.xmax[k] - v.xML[k]) \div 2 - SEAt(y, v.delta, N)) <= 3

C11_Witness ==
    /\ fn = "gumbelPlot"
    /\ pc = "returned"
    /\ Len(args.df) = 3
    /\ result.value.delta = 500
    /\ Len(result.value.xML) = 3
    /\ result.value.xmax[3] > result.value.xML[3]
    /\ result.value.xML[3] > result.value.xmin[3]

\* C12: for order 0 the residual is 2*log10(pctAl) + 3*log10(pctO)
\* - log10(activity) - logK_Al(T): no interaction coefficient enters it.
C12_IdealResidual ==
    (fn = "Al_O_eqs" /\ args.params[4] = 0 /\ pc = "returned") =>
        LET pctAl == args.params[1]
            T     == args.params[2]
            a     == args.params[3]
        IN  result.value = 2 * log10Content(pctAl) + 3 * log10Content(args.pctO)
                           - log10Activity(a) - ((-45300000) \div T + 11620)

C12_Witness ==
    /\ fn = "Al_O_eqs"
    /\ args.params[4] = 0
    /\ pc = "returned"
    /\ args.params[1] = 100000000
    /\ args.pctO = 1000000
    /\ e_AlAl(args.params[2]) # 0
    /\ e_OAl(args.params[2]) # 0
    /\ IsNum(result.value)

\* C13: calcSE(x, lambda, delta, N) = delta*sqrt((1.109 + 0.514*y +
\* 0.608*y^2)/N) with y = (x - lambda)/delta, and at x = lambda it is
\* delta*sqrt(1.109/N).  Stated on squares, SE^2 * N = delta^2 * (...), with
\* the rounding of the fixed-point result as tolerance.
C13_StandardError ==
    fn = "calcSE" =>
        LET d     == args.x - args.lamb
            delta == args.delta
            N     == args.N
            SE    == result.value
            inner == 1109 + (514 * d) \div delta + (608 * d * d) \div (delta * delta)
            lo    == IF SE > 5 THEN SE - 5 ELSE 0
        IN  /\ result.outcome = "return"
            /\ SE # NaN /\ SE > 0
            /\ lo * lo * N * 10 <= ((delta * delta) \div 100) * inner
            /\ ((delta * delta) \div 100) * inner <= (SE + 5) * (SE + 5) * N * 10
            /\ d = 0 =>
                 /\ SE * SE * 1000 * N <= delta * delta * 1109
                 /\ delta * delta * 1109 < (SE + 3) * (SE + 3) * 1000 * N

C13_Witness ==
    /\ fn = "calcSE"
    /\ pc = "returned"
    /\ args.x = args.lamb
    /\ args.delta = 500
    /\ args.N = 3
    /\ result.value > 0

\* C14: for a valid order, whatever the root finder answers (a poor
\* estimate, a negative value, NaN) is no error: calc_pure returns that very
\* value, and data_deox hands it on, changed only by the substitution of
\* NaN for values above the bound.  The only exception a valid order lets
\* through is the one func itself raises (T = 0).
C14_RootReturnedAsIs ==
    /\ (fn = "calc_pure" /\ EventsOf("fsolve") # <<>>) =>
          IF args.T = 0
          THEN result.outcome = "raise" /\ result.exc.type = "ZeroDivisionError"
          ELSE /\ result.outcome = "return"
               /\ result.value = RawRoot(1)
               /\ Len(EventsOf("fsolve")) = 1
    /\ (fn = "data_deox" /\ args.order \in {0, 1, 2} /\ args.T # 0) =>
          /\ pc # "raised"
          /\ pc = "loop" => \A k \in DOMAIN pcts_O : pcts_O[k] = RawRoot(k)
          /\ pc = "returned" =>
                \A k \in DOMAIN result.value[2] :
                    result.value[2][k] =
                        IF FGt(RawRoot(k), args.bound) THEN NaN ELSE RawRoot(k)

C14_Witness ==
    /\ fn = "data_deox"
    /\ pc = "returned"
    /\ Len(args.pcts_M) = 2
    /\ RawRoot(1) = NaN
    /\ RawRoot(2) = -1
    /\ result.value[2] = <<NaN, -1>>

\* C15: the orders are nested.  For order 1, log_fAl = e_AlAl*Al + e_AlO*O
\* and log_fO = e_OAl*Al + e_OO*O; the order-2 residual is the order-1
\* residual of the same arguments plus 2*(r_AlAl*Al^2 + r_AlO*O^2 +
\* r_AlAlO*Al*O) + 3*(r_OAl*Al^2 + r_OO*O^2 + r_OAlO*Al*O), every
\* coefficient taken at the same T.
C15_NestedOrders ==
    (fn = "Al_O_eqs" /\ args.params[4] \in {1, 2} /\ pc = "returned") =>
        LET pctAl == args.params[1]
            T     == args.params[2]
            a     == args.params[3]
            Al    == Milli(pctAl)
            O     == Milli(args.pctO)
            ideal == 2 * log10Content(pctAl) + 3 * log10Content(args.pctO)
                     - log10Activity(a) - logK_Al(T)
            fAl1  == FMul(e_AlAl(T), Al) + FMul(e_AlO(T), O)
            fO1   == FMul(e_OAl(T), Al) + FMul(e_OO(T), O)
            rAl   == FMul(r_AlAl(T), FMul(Al, Al)) + FMul(r_AlO(T), FMul(O, O))
                     + FMul(r_AlAlO(T), FMul(Al, O))
            rO    == FMul(r_OAl(T), FMul(Al, Al)) + FMul(r_OO(T), FMul(O, O))
                     + FMul(r_OAlO(T), FMul(Al, O))
            order1 == Al_O_eqs(args.pctO, <<pctAl, T, a, 1>>)
        IN  /\ order1.outcome = "return"
            /\ order1.value = ideal + 2 * fAl1 + 3 * fO1
            /\ args.params[4] = 1 => result.value = order1.value
            /\ args.params[4] = 2 => result.value = order1.value + 2 * rAl + 3 * rO

C15_Witness ==
    /\ fn = "Al_O_eqs"
    /\ args.params[4] = 2
    /\ pc = "returned"
    /\ result.value # Al_O_eqs(args.pctO, <<args.params[1], args.params[2], args.params[3], 1>>).value
    /\ Al_O_eqs(args.pctO, <<args.params[1], args.params[2], args.params[3], 1>>).value
         # Al_O_eqs(args.pctO, <<args.params[1], args.params[2], args.params[3], 0>>).value

\* C16 (as claimed): data_deox with an order outside {0,1,2} raises
\* ValueError before any root solve and returns nothing, for every
\* aluminum-content sequence, the empty one included.
C16_InvalidOrderNeverReturns ==
    (fn = "data_deox" /\ args.order \notin {0, 1, 2}) =>
        /\ pc # "returned"
        /\ EventsOf("fsolve") = <<>>
        /\ pc = "raised" => result.exc.type = "ValueError"

\* C16 (amended): with an order outside {0,1,2} no root solve is ever
\* performed; on a non-empty sequence data_deox raises the ValueError of
\* calc_pure at the first point and returns nothing; on the empty sequence
\* it calls nothing and returns (pcts_M, empty array).
C16_InvalidOrderNonEmpty ==
    (fn = "data_deox" /\ args.order \notin {0, 1, 2}) =>
        /\ EventsOf("fsolve") = <<>>
        /\ EventsOf("Al_O_eqs") = <<>>
        /\ pcts_O = <<>>
        /\ Len(args.pcts_M) >= 1 =>
              /\ pc # "returned"
              /\ pc = "raised" =>
                    /\ result.outcome = "raise"
                    /\ result.exc.type = "ValueError"
                    /\ result.exc.offending = args.order
                    /\ Len(EventsOf("calc_pure")) = 1
        /\ Len(args.pcts_M) = 0 =>
              /\ pc # "raised"
              /\ EventsOf("calc_pure") = <<>>
              /\ pc = "returned" => result.value = <<args.pcts_M, <<>>>>

C16_Witness ==
    /\ fn = "data_deox"
    /\ args.order = 3
    /\ args.T = 0
    /\ Len(args.pcts_M) = 2
    /\ pc = "raised"
    /\ result.exc.type = "ValueError"
    /\ EventsOf("fsolve") = <<>>

\* C17: data_deox changes nothing but the values above the bound: a root
\* <= bound (zero and negative ones too) is returned as it is at its index,
\* a NaN root stays NaN, and pcts_M comes back as it was passed.
C17_OnlyAboveBoundChanges ==
    DeoxReturned =>
        /\ result.value[1] = args.pcts_M
        /\ DOMAIN result.value[2] = DOMAIN args.pcts_M
        /\ \A k \in DOMAIN result.value[2] :
              /\ FLe(RawRoot(k), args.bound) => result.value[2][k] = RawRoot(k)
              /\ RawRoot(k) = NaN => result.value[2][k] = NaN

C17_Witness ==
    /\ DeoxReturned
    /\ Len(args.pcts_M) = 2
    /\ args.pcts_M[1] > args.pcts_M[2]
    /\ RawRoot(1) = args.bound
    /\ RawRoot(2) = 0
    /\ result.value[2] = <<args.bound, 0>>
    /\ result.value[1] = args.pcts_M

\* C18: when exactly one of gamma and delta is passed to gumbelPlot, it has
\* no effect: location and scale are both the maximum-likelihood fit and
\* the call does what the call with neither parameter does.
C18_SingleParameterIgnored ==
    (fn = "gumbelPlot" /\ Cardinality(args.given) = 1) =>
        LET neither == gumbelPlot(args.df, {}, NaN, NaN, mlFit) IN
        /\ result = Outcome(neither)
        /\ printed = neither.printed
        /\ trace = neither.events
        /\ Len(EventsOf("fitEVml")) = 1
        /\ pc = "returned" =>
              /\ result.value.lamb = mlFit.value[1]
              /\ result.value.delta = mlFit.value[2]

C18_Witness ==
    /\ fn = "gumbelPlot"
    /\ args.given = {"delta"}
    /\ pc = "returned"
    /\ Len(args.df) = 3
    /\ args.delta = 2500
    /\ result.value.delta = 500
    /\ printed # <<>>

\* C19: calc_pure accepts exactly the orders Al_O_eqs accepts, so through
\* calc_pure or data_deox Al_O_eqs is only ever evaluated with an order in
\* {0,1,2} (its ValueError branch is not reached), and a ValueError for the
\* order is raised by calc_pure itself, before func is evaluated.
C19_SameAcceptedOrders ==
    /\ \A o \in OrderVals, p \in PctAlVals, T \in TVals \ {0} :
          (calc_pure("Al_O_eqs", p, T, 1000, 1, o, 0).exc.type = "ValueError")
              <=> (Al_O_eqs(1, <<p, T, 1000, o>>).exc.type = "ValueError")
    /\ fn \in {"calc_pure", "data_deox"} =>
          /\ \A k \in DOMAIN trace :
                trace[k].ev = "Al_O_eqs" => trace[k].params[4] \in {0, 1, 2}
          /\ result.exc.type = "ValueError" =>
                /\ trace[Len(trace)].ev = "calc_pure"
                /\ trace[Len(trace)].params[4] \notin {0, 1, 2}

C19_Witness ==
    /\ fn = "data_deox"
    /\ pc = "raised"
    /\ args.order = -1
    /\ args.T = 1873
    /\ result.exc.type = "ValueError"
    /\ Len(trace) = 1
    /\ trace[1].ev = "calc_pure"

=============================================================================
